---------------------------- MODULE Spec2Model ----------------------------
(***************************************************************************)
(* The FIFO matching engine of src/src/fifo_matching.py                    *)
(* (perform_fifo_matching) as a state machine, one action per loop step,   *)
(* the validators and the gate of src/src/data_quality.py as operators     *)
(* with one action per call, and the tasks of the DAG of                   *)
(* src/dags/thrive_cash_processing_dag.py that call them.                  *)
(*                                                                         *)
(* A DataFrame is a sequence of rows; the index label of a row is its      *)
(* position (the default RangeIndex of pd.DataFrame / pd.read_excel).      *)
(* AMOUNT is fixed-point, in cents: 10.00 is 1000, and the tolerance 0.01  *)
(* of line 246 is 1.  CREATEDAT is an integer time stamp.                  *)
(***************************************************************************)
EXTENDS Integers, Sequences, FiniteSets, TLC

\* ------------------------------------------------------------------ bounds
\* Rows of a generated batch, time stamps 1..MaxTime, customers 1..MaxCust.
MaxRows == 3
MaxTime == 2
MaxCust == 2
\* Rows of a batch or frame handed to a validator, results of a report handed
\* to the gate.
MaxChecked == 2
MaxResults == 3

\* ------------------------------------------------------- program constants
\* result_df['REDEEMID'] = None: the null reference (no TRANS_ID is 0).
None == 0
\* if remaining_to_match > 0.01, in cents.
Tolerance == 1
\* TRANS_ID of the first row of a generated batch (the tests' 1001, 1002, ...).
FirstTransId == 1001
\* EXPIREDAT of the first lot of sample_tc_data, in days after its CREATEDAT.
ExpiryDays == 59
\* ORDERID of the spend of sample_tc_data.
FirstOrderId == 5001
\* The null of a numeric or datetime column (NaN, NaT): no amount, time stamp
\* or identifier of the model has this value.
NaN == -99
\* The null of the TCTYPE column.
NullText == "NaN"
\* DEFAULT_ARGS['retries'] of the DAG: a task that raised is run again up to
\* this many times.
Retries == 3

VARIABLES
    df,                        \* the input batch (argument of perform_fifo_matching)
    tie_order,                 \* how this build's quicksort orders equal keys
    pc,                        \* position in perform_fifo_matching
    columns,                   \* result_df.columns
    result_df,                 \* the annotated copy (rows with REDEEMID)
    customers,                 \* customers still to be processed by the for loop
    customer_id,               \* the loop variable of line 167
    earned_txns,               \* index labels of the customer's earned rows, sorted
    redemption_txns,           \* index labels of the redemptions still to iterate
    redemption,                \* index label of the redemption being matched
    available_earned_indices,  \* the pool
    scan_pos,                  \* position of the inner for loop in the pool
    remaining_to_match,
    indices_to_remove,
    total_matches,
    unmatched_redemptions,
    run,                       \* 1 in the first call of the engine, 2 in the second
    first_result,              \* what the first call returned
    focus,                     \* the customer the second call's batch is cut down to
    now,                       \* datetime.now() of the validation
    report,                    \* the ValidationReport of the latest validation
    matched_df,                \* the frame handed to validate_fifo_results
    fail_on_error,             \* the argument of the latest call of the gate
    gate_result,               \* how the latest call of the gate ended
    task,                      \* the task of the DAG that runs next
    output_file,               \* the CSV at output_path
    try_number,                \* the attempt of the task that runs next
    balance_records            \* what build_analytics wrote

engine == <<pc, columns, result_df, customers, customer_id, earned_txns,
            redemption_txns, redemption, available_earned_indices, scan_pos,
            remaining_to_match, indices_to_remove, total_matches,
            unmatched_redemptions>>

pipeline == <<now, report, matched_df, fail_on_error, gate_result, task,
              output_file, try_number, balance_records>>

caller == <<df, tie_order, run, first_result, focus, pipeline>>

vars == <<engine, caller>>

\* --------------------------------------------------------------- helpers
Abs(x) == IF x < 0 THEN -x ELSE x

RECURSIVE SumSeq(_)
SumSeq(s) == IF s = <<>> THEN 0 ELSE Head(s) + SumSeq(Tail(s))

Range(s) == {s[i] : i \in 1..Len(s)}

\* The columns of the input sheet (load_tc_data's docstring).
InputColumns ==
    {"TRANS_ID", "TCTYPE", "CREATEDAT", "EXPIREDAT", "CUSTOMERID", "ORDERID",
     "AMOUNT", "REASON"}

\* Series.unique(): the distinct values in order of first appearance.
RECURSIVE Unique(_)
Unique(s) ==
    IF s = <<>> THEN <<>>
    ELSE LET init == Unique(SubSeq(s, 1, Len(s) - 1))
             last == s[Len(s)]
         IN  IF last \in Range(init) THEN init ELSE Append(init, last)

\* Mutant: the sort runs descending (ascending=False), newest lot first.
SortsBeforeDescending(frame, tie, i, j) ==
    \/ frame[i].CREATEDAT > frame[j].CREATEDAT
    \/ /\ frame[i].CREATEDAT = frame[j].CREATEDAT
       /\ IF tie = "input" THEN i < j ELSE i > j

\* Mutant: a sort whose pivot is drawn afresh in every call orders equal keys
\* one way in the first call and the other way in the second.
SortsBeforeByCall(frame, tie, i, j) ==
    \/ frame[i].CREATEDAT < frame[j].CREATEDAT
    \/ /\ frame[i].CREATEDAT = frame[j].CREATEDAT
       /\ IF (tie = "input") = (run = 1) THEN i < j ELSE i > j

\* Mutant: the sort is lost, the rows stay in the order of the batch.
SortsBeforeUnsorted(frame, tie, i, j) == i < j

\* Whether sort_values('CREATEDAT') puts label i before label j.  The default
\* kind is quicksort, which orders equal keys as the build's sort happens to:
\* tie_order "input" keeps them in frame order, "reversed" does not.
SortsBefore(frame, tie, i, j) ==
    \/ frame[i].CREATEDAT < frame[j].CREATEDAT
    \/ /\ frame[i].CREATEDAT = frame[j].CREATEDAT
       /\ IF tie = "input" THEN i < j ELSE i > j

\* frame[labels].sort_values('CREATEDAT'): the labels, ascending by CREATEDAT.
RECURSIVE SortValues(_, _, _)
SortValues(frame, tie, labels) ==
    IF labels = {} THEN <<>>
    ELSE LET first == CHOOSE i \in labels :
                          \A j \in labels \ {i} : SortsBefore(frame, tie, i, j)
         IN  <<first>> \o SortValues(frame, tie, labels \ {first})

\* list.remove(idx): the list without the first occurrence of idx.
RECURSIVE ListRemove(_, _)
ListRemove(list, idx) ==
    IF list = <<>> THEN <<>>
    ELSE IF Head(list) = idx THEN Tail(list)
    ELSE <<Head(list)>> \o ListRemove(Tail(list), idx)

\* Mutant: the lot matched last stays in the pool (what is left of it could
\* serve the next redemption).
RECURSIVE RemoveAllButLast(_, _)
RemoveAllButLast(list, idxs) ==
    IF Len(idxs) <= 1 THEN list
    ELSE RemoveAllButLast(ListRemove(list, Head(idxs)), Tail(idxs))

\* for idx in indices_to_remove: available_earned_indices.remove(idx)
RECURSIVE RemoveAll(_, _)
RemoveAll(list, idxs) ==
    IF idxs = <<>> THEN list
    ELSE RemoveAll(ListRemove(list, Head(idxs)), Tail(idxs))

\* list.remove raises ValueError when the value is not in the list.
RECURSIVE RemoveRaises(_, _)
RemoveRaises(list, idxs) ==
    IF idxs = <<>> THEN FALSE
    ELSE \/ Head(idxs) \notin Range(list)
         \/ RemoveRaises(ListRemove(list, Head(idxs)), Tail(idxs))

\* Mutant: the TCTYPE filter of line 180 is lost, every row of c is a lot.
EarnedMaskAnyKind(c, row) == row.CUSTOMERID = c

\* Mutant: the customer filter of line 171 is lost for the redemptions.
RedemptionMaskAnyCustomer(c, row) == row.TCTYPE \in {"spent", "expired"}

\* Mutant: the guard of line 224 is lost, every lot of the pool is eligible.
IneligibleNever(earned_date, redemption_date) == FALSE

\* Mutant: the guard of line 224 also turns away a lot of the same instant.
IneligibleSameInstant(earned_date, redemption_date) ==
    earned_date >= redemption_date

\* Mutant: the customer filter of line 171 is lost for the lots.
EarnedMaskAnyCustomer(c, row) == row.TCTYPE = "earned"

\* Mutant: line 181 selects the spent rows only, expiry consumes nothing.
RedemptionMaskSpentOnly(c, row) == row.CUSTOMERID = c /\ row.TCTYPE = "spent"

\* Mutant: a lot is split, only what the redemption still needs is taken.
ConsumeSplit(remaining, earned_amount) ==
    remaining - (IF earned_amount < remaining THEN earned_amount ELSE remaining)

\* Mutant: the tolerance of line 246 is lost, any rest above zero is counted.
UnmatchedOutcomeNoTolerance(remaining) ==
    IF remaining > 0 THEN "counted" ELSE "matched"

\* Mutant: an unmatched rest is raised as an error instead of being counted.
UnmatchedOutcomeRaise(remaining) ==
    IF remaining > Tolerance THEN "raised" ELSE "matched"

\* Mutant: the column is added only when the frame has none; the references
\* of an annotated frame are kept.
AddRedeemIdIfMissing(row) ==
    [TRANS_ID |-> row.TRANS_ID, TCTYPE |-> row.TCTYPE,
     CREATEDAT |-> row.CREATEDAT, EXPIREDAT |-> row.EXPIREDAT,
     CUSTOMERID |-> row.CUSTOMERID, ORDERID |-> row.ORDERID,
     AMOUNT |-> row.AMOUNT, REASON |-> row.REASON,
     REDEEMID |-> IF "REDEEMID" \in DOMAIN row THEN row.REDEEMID ELSE None]

\* Mutant: the copy also normalises the amounts to their absolute value.
AddRedeemIdAbsAmount(row) ==
    [TRANS_ID |-> row.TRANS_ID, TCTYPE |-> row.TCTYPE,
     CREATEDAT |-> row.CREATEDAT, EXPIREDAT |-> row.EXPIREDAT,
     CUSTOMERID |-> row.CUSTOMERID, ORDERID |-> row.ORDERID,
     AMOUNT |-> Abs(row.AMOUNT), REASON |-> row.REASON, REDEEMID |-> None]

\* Lines 147, 151: a row of df.copy() after result_df['REDEEMID'] = None; every
\* other column keeps the value it has in df.
AddRedeemId(row) ==
    [TRANS_ID |-> row.TRANS_ID, TCTYPE |-> row.TCTYPE,
     CREATEDAT |-> row.CREATEDAT, EXPIREDAT |-> row.EXPIREDAT,
     CUSTOMERID |-> row.CUSTOMERID, ORDERID |-> row.ORDERID,
     AMOUNT |-> row.AMOUNT, REASON |-> row.REASON, REDEEMID |-> None]

\* Lines 171, 180: the earned rows of customer c.
EarnedMask(c, row) == row.CUSTOMERID = c /\ row.TCTYPE = "earned"

\* Lines 171, 181: the spent and expired rows of customer c.
RedemptionMask(c, row) ==
    row.CUSTOMERID = c /\ row.TCTYPE \in {"spent", "expired"}

EarnedLabels(frame, c) == {i \in 1..Len(frame) : EarnedMask(c, frame[i])}

RedemptionLabels(frame, c) ==
    {i \in 1..Len(frame) : RedemptionMask(c, frame[i])}

\* Mutant: only a customer without redemptions is skipped; the redemptions of
\* a customer without lots are scanned against an empty pool.
NothingToMatchWithoutRedemptions(earned, redeem) == Len(redeem) = 0

\* Line 189: nothing to match for this customer, continue.
NothingToMatch(earned, redeem) == Len(earned) = 0 \/ Len(redeem) = 0

\* Line 224: a lot earned after the redemption is passed over.
Ineligible(earned_date, redemption_date) == earned_date > redemption_date

\* Line 232: the whole lot is taken off what is left to match.
Consume(remaining, earned_amount) == remaining - earned_amount

\* Lines 246-252: an unmatched rest is counted and logged, nothing is raised.
UnmatchedOutcome(remaining) ==
    IF remaining > Tolerance THEN "counted" ELSE "matched"

\* ------------------------------------------------- the validation framework
\* src/src/data_quality.py.  A ValidationResult is modelled by its check_name,
\* passed and severity; message and details are texts derived from the same
\* counts and are left out.  A check_name is the sequence of the pieces of its
\* f-string, so that <<"No Null Values", "TRANS_ID">> names its field.

\* Mutant: isna() finds no null.
IsNaNever(field, value) == FALSE

\* Series.isna(): NaN/NaT in a numeric or datetime column, None or NaN in a
\* column of objects.
IsNa(field, value) ==
    IF field = "TCTYPE" THEN value = NullText
    ELSE IF field \in {"EXPIREDAT", "ORDERID", "REASON", "REDEEMID"}
         THEN value \in {None, NaN}
         ELSE value = NaN

\* Series.gt, .lt and the operators >, <=: false when either side is null.
Gt(a, b) == a # NaN /\ b # NaN /\ a > b
Lt(a, b) == a # NaN /\ b # NaN /\ a < b
Le(a, b) == a # NaN /\ b # NaN /\ a <= b

ValidationResult(check_name, passed, severity) ==
    [check_name |-> check_name, passed |-> passed, severity |-> severity]

ValidationReport(timestamp, stage, results) ==
    [timestamp |-> timestamp, stage |-> stage, results |-> results]

\* Mutant: a failed WARNING fails the report as well.
ReportPassedStrict(rpt) ==
    \A k \in 1..Len(rpt.results) :
        rpt.results[k].severity \in {"ERROR", "WARNING"}
            => rpt.results[k].passed

\* ValidationReport.passed: all(r.passed for r in results if severity == 'ERROR').
ReportPassed(rpt) ==
    \A k \in 1..Len(rpt.results) :
        rpt.results[k].severity = "ERROR" => rpt.results[k].passed

\* sum(1 for r in results if not r.passed and r.severity == severity)
FailedCount(rpt, severity) ==
    Cardinality({k \in 1..Len(rpt.results) :
                    /\ ~rpt.results[k].passed
                    /\ rpt.results[k].severity = severity})

ErrorCount(rpt) == FailedCount(rpt, "ERROR")

WarningCount(rpt) == FailedCount(rpt, "WARNING")

\* What a call of validation_gate ends in: the value it returns, or the
\* ValueError it raises, whose message holds the stage and the error count.
Returned(value) == [kind |-> "returned", value |-> value]

Raised(stage, error_count) ==
    [kind |-> "raised", exception |-> "ValueError", stage |-> stage,
     error_count |-> error_count]

\* Mutant: the gate ignores fail_on_error and always raises on a failed report.
ValidationGateAlwaysRaises(rpt, fail) ==
    IF ~ReportPassed(rpt)
    THEN Raised(rpt.stage, ErrorCount(rpt))
    ELSE Returned(TRUE)

\* validation_gate(report, fail_on_error), lines 586-596.
ValidationGate(rpt, fail) ==
    IF ~ReportPassed(rpt)
    THEN IF fail THEN Raised(rpt.stage, ErrorCount(rpt))
                 ELSE Returned(FALSE)
    ELSE Returned(TRUE)

\* ---- validate_source_data
required_fields == <<"TRANS_ID", "TCTYPE", "CREATEDAT", "CUSTOMERID", "AMOUNT">>

valid_types == {"earned", "spent", "expired"}

\* df[field].isna().sum()
NullCount(frame, field) ==
    Cardinality({i \in 1..Len(frame) : IsNa(field, frame[i][field])})

\* Lines 193-204: one result for each required field.
NoNullValues(frame) ==
    [k \in 1..Len(required_fields) |->
        ValidationResult(<<"No Null Values", required_fields[k]>>,
                         NullCount(frame, required_fields[k]) = 0, "ERROR")]

\* Lines 211-222: the kinds met, nulls dropped, outside the valid ones.
InvalidTypes(frame) ==
    {frame[i].TCTYPE : i \in {j \in 1..Len(frame) :
                                ~IsNa("TCTYPE", frame[j].TCTYPE)}} \ valid_types

\* Mutant: a zero amount counts as a good earned amount (ge for gt).
SignCheckPassedZeroEarned(frame) ==
    /\ \A i \in 1..Len(frame) :
          frame[i].TCTYPE = "earned" =>
              frame[i].AMOUNT # NaN /\ frame[i].AMOUNT >= 0
    /\ \A i \in 1..Len(frame) :
          frame[i].TCTYPE = "spent" => Lt(frame[i].AMOUNT, 0)
    /\ \A i \in 1..Len(frame) :
          frame[i].TCTYPE = "expired" => Lt(frame[i].AMOUNT, 0)

\* Lines 229-233: earned_positive and spent_negative and expired_negative.
SignCheckPassed(frame) ==
    /\ \A i \in 1..Len(frame) :
          frame[i].TCTYPE = "earned" => Gt(frame[i].AMOUNT, 0)
    /\ \A i \in 1..Len(frame) :
          frame[i].TCTYPE = "spent" => Lt(frame[i].AMOUNT, 0)
    /\ \A i \in 1..Len(frame) :
          frame[i].TCTYPE = "expired" => Lt(frame[i].AMOUNT, 0)

\* Line 253: the rows whose TRANS_ID an earlier row has (duplicated() holds
\* two nulls to be equal).
DuplicateIds(frame) ==
    {i \in 1..Len(frame) :
        \E j \in 1..(i - 1) : frame[j].TRANS_ID = frame[i].TRANS_ID}

\* Mutant: the future dates are an error, not a warning.
FutureDatesSeverityError == "ERROR"

\* Line 276: severity='WARNING', clock skew could cause this.
FutureDatesSeverity == "WARNING"

\* Line 269: df[df['CREATEDAT'] > datetime.now()]
FutureDates(frame, clock) ==
    {i \in 1..Len(frame) : Gt(frame[i].CREATEDAT, clock)}

\* Line 285: df[df['CUSTOMERID'] <= 0]; the column of the model is numeric
\* (int64, or float64 when it holds a null).
InvalidCustomers(frame) ==
    {i \in 1..Len(frame) : Le(frame[i].CUSTOMERID, 0)}

\* Mutant: the completeness check is folded into one result for all fields.
SourceResultsOnePerCheck(frame, clock) ==
    <<ValidationResult(<<"No Null Values">>,
                       \A k \in 1..Len(required_fields) :
                           NullCount(frame, required_fields[k]) = 0, "ERROR"),
      ValidationResult(<<"Valid Transaction Types">>,
                       InvalidTypes(frame) = {}, "ERROR"),
      ValidationResult(<<"Amount Sign Consistency">>,
                       SignCheckPassed(frame), "ERROR"),
      ValidationResult(<<"No Duplicate Transaction IDs">>,
                       DuplicateIds(frame) = {}, "ERROR"),
      ValidationResult(<<"No Future Dates">>,
                       FutureDates(frame, clock) = {}, FutureDatesSeverity),
      ValidationResult(<<"Valid Customer IDs">>,
                       InvalidCustomers(frame) = {}, "ERROR"),
      ValidationResult(<<"Data Completeness Summary">>, TRUE, "INFO")>>

\* The results list of validate_source_data, lines 184-312.
SourceResults(frame, clock) ==
    NoNullValues(frame) \o
    <<ValidationResult(<<"Valid Transaction Types">>,
                       InvalidTypes(frame) = {}, "ERROR"),
      ValidationResult(<<"Amount Sign Consistency">>,
                       SignCheckPassed(frame), "ERROR"),
      ValidationResult(<<"No Duplicate Transaction IDs">>,
                       DuplicateIds(frame) = {}, "ERROR"),
      ValidationResult(<<"No Future Dates">>,
                       FutureDates(frame, clock) = {}, FutureDatesSeverity),
      ValidationResult(<<"Valid Customer IDs">>,
                       InvalidCustomers(frame) = {}, "ERROR"),
      ValidationResult(<<"Data Completeness Summary">>, TRUE, "INFO")>>

\* validate_source_data(df), lines 146-318.
ValidateSourceData(frame, clock) ==
    ValidationReport(clock, "source", SourceResults(frame, clock))

\* ---- validate_fifo_results
\* A frame handed to validate_fifo_results: its columns and its rows.
Frame(cols, rows) == [columns |-> cols, rows |-> rows]

\* Mutant: a reference must name a spent or expired row of the customer of
\* the row that holds it.
InvalidRedeemIdsSameCustomer(rows) ==
    {rows[i].REDEEMID : i \in {j \in 1..Len(rows) :
        /\ ~IsNa("REDEEMID", rows[j].REDEEMID)
        /\ ~\E r \in 1..Len(rows) :
               /\ rows[r].TCTYPE \in {"spent", "expired"}
               /\ rows[r].TRANS_ID = rows[j].REDEEMID
               /\ rows[r].CUSTOMERID = rows[j].CUSTOMERID}}

\* Lines 393-398: the references set that are no TRANS_ID of a spent or
\* expired row.
InvalidRedeemIds(rows) ==
    {rows[i].REDEEMID : i \in {j \in 1..Len(rows) :
                                  ~IsNa("REDEEMID", rows[j].REDEEMID)}}
    \ {rows[i].TRANS_ID : i \in {j \in 1..Len(rows) :
                                    rows[j].TCTYPE \in {"spent", "expired"}}}

\* Lines 414-417: the rows that are not earned and hold a reference.
NonEarnedWithRedeemId(rows) ==
    {i \in 1..Len(rows) :
        rows[i].TCTYPE # "earned" /\ ~IsNa("REDEEMID", rows[i].REDEEMID)}

\* Mutant: the comparison of line 447 is turned round, a lot earned before
\* its redemption is reported.
ChronologicalErrorsReversed(rows) ==
    {i \in 1..Len(rows) :
        /\ rows[i].TCTYPE = "earned"
        /\ ~IsNa("REDEEMID", rows[i].REDEEMID)
        /\ LET hits == {j \in 1..Len(rows) : rows[j].TRANS_ID = rows[i].REDEEMID}
           IN  /\ hits # {}
               /\ LET first == CHOOSE j \in hits : \A k \in hits : j <= k
                  IN  Lt(rows[i].CREATEDAT, rows[first].CREATEDAT)}

\* Mutant: a lot matched at the instant it was earned is reported too.
ChronologicalErrorsSameInstant(rows) ==
    {i \in 1..Len(rows) :
        /\ rows[i].TCTYPE = "earned"
        /\ ~IsNa("REDEEMID", rows[i].REDEEMID)
        /\ LET hits == {j \in 1..Len(rows) : rows[j].TRANS_ID = rows[i].REDEEMID}
           IN  /\ hits # {}
               /\ LET first == CHOOSE j \in hits : \A k \in hits : j <= k
                  IN  /\ rows[i].CREATEDAT # NaN
                      /\ rows[first].CREATEDAT # NaN
                      /\ rows[i].CREATEDAT >= rows[first].CREATEDAT}

\* Lines 433-453: the earned rows with a reference whose CREATEDAT is later
\* than that of the first row with the referenced TRANS_ID.
ChronologicalErrors(rows) ==
    {i \in 1..Len(rows) :
        /\ rows[i].TCTYPE = "earned"
        /\ ~IsNa("REDEEMID", rows[i].REDEEMID)
        /\ LET hits == {j \in 1..Len(rows) : rows[j].TRANS_ID = rows[i].REDEEMID}
           IN  /\ hits # {}
               /\ LET first == CHOOSE j \in hits : \A k \in hits : j <= k
                  IN  Gt(rows[i].CREATEDAT, rows[first].CREATEDAT)}

\* Lines 448-453, 461: earned_id and redemption_id of the errors listed in the
\* details of the result.
ChronologicalPairs(rows) ==
    {<<rows[i].TRANS_ID, rows[i].REDEEMID>> : i \in ChronologicalErrors(rows)}

\* customer_df[customer_df['TCTYPE'] == kind]['AMOUNT'].sum(); sum() skips nulls.
RECURSIVE KindTotal(_, _, _)
KindTotal(rows, c, kind) ==
    IF rows = <<>> THEN 0
    ELSE (IF /\ Head(rows).CUSTOMERID = c
             /\ Head(rows).TCTYPE = kind
             /\ Head(rows).AMOUNT # NaN
          THEN Head(rows).AMOUNT ELSE 0)
         + KindTotal(Tail(rows), c, kind)

\* Lines 474-479: total_earned - total_spent - total_expired.
Remaining(rows, c) ==
    KindTotal(rows, c, "earned") - Abs(KindTotal(rows, c, "spent"))
        - Abs(KindTotal(rows, c, "expired"))

\* Lines 471-488: the customers whose balance is below minus the tolerance.
BalanceErrors(rows) ==
    {c \in {rows[i].CUSTOMERID : i \in 1..Len(rows)} :
        Remaining(rows, c) < -Tolerance}

\* Line 495: severity='WARNING', a negative balance might be valid.
BalanceSeverity == "WARNING"

SchemaResult(frame) ==
    ValidationResult(<<"REDEEMID Column Exists">>,
                     "REDEEMID" \in frame.columns, "ERROR")

\* Lines 388-522: the five checks that need the column.
ReferenceResults(rows) ==
    <<ValidationResult(<<"REDEEMID References Valid Transactions">>,
                       InvalidRedeemIds(rows) = {}, "ERROR"),
      ValidationResult(<<"Only Earned Transactions Have REDEEMID">>,
                       NonEarnedWithRedeemId(rows) = {}, "ERROR"),
      ValidationResult(<<"Chronological Consistency">>,
                       ChronologicalErrors(rows) = {}, "ERROR"),
      ValidationResult(<<"Customer Balance Reconciliation">>,
                       BalanceErrors(rows) = {}, BalanceSeverity),
      ValidationResult(<<"Matching Statistics">>, TRUE, "INFO")>>

\* Mutant: without the column the validator still reports the balance check,
\* which does not read it.
FifoResultsNoEarlyReturn(frame) ==
    IF "REDEEMID" \notin frame.columns
    THEN <<SchemaResult(frame),
           ValidationResult(<<"Customer Balance Reconciliation">>,
                            BalanceErrors(frame.rows) = {}, BalanceSeverity)>>
    ELSE <<SchemaResult(frame)>> \o ReferenceResults(frame.rows)

\* The results list of validate_fifo_results, lines 364-522: the schema
\* check alone when the column is missing (lines 380-386).
FifoResults(frame) ==
    IF "REDEEMID" \notin frame.columns
    THEN <<SchemaResult(frame)>>
    ELSE <<SchemaResult(frame)>> \o ReferenceResults(frame.rows)

\* validate_fifo_results(original_df, matched_df), lines 326-528; original_df
\* is not read.
ValidateFifoResults(clock, original, matched) ==
    ValidationReport(clock, "post_fifo", FifoResults(matched))

\* ---- the CSV between the tasks
\* save_results: df.to_csv(output_path, index=False).  A null is written as
\* an empty field; CREATEDAT is written to the second, the unit of the
\* model's time stamps.
ToCsv(cols, rows) == Frame(cols, rows)

\* A None of a column of objects, read back from its empty field.
ReadBack(value) == IF value = None THEN NaN ELSE value

\* pd.read_csv(output_path): an empty field is read back as NaN (the nulls of
\* the sheet are in EXPIREDAT, ORDERID and REASON, those of the engine in
\* REDEEMID).
ReadCsv(file) ==
    Frame(file.columns,
          [i \in 1..Len(file.rows) |->
              [file.rows[i] EXCEPT !.EXPIREDAT = ReadBack(@),
                                   !.ORDERID = ReadBack(@),
                                   !.REASON = ReadBack(@),
                                   !.REDEEMID = ReadBack(@)]])

\* ------------------------------------------------------------ input batches
Kinds == {"earned", "spent", "expired"}

\* The amounts of a validated row, in cents: earned positive, the others
\* negative.  A spend of 3 against lots of 2 is 1 short after one lot (the
\* tolerance) and overshoots by 1 after two; an expiry of 2 is met by one lot.
AmountsOf(kind) ==
    CASE kind = "earned"  -> {2}
      [] kind = "spent"   -> {-3}
      [] kind = "expired" -> {-2}

\* The amounts of a row nobody validated: either sign on any kind.
RawAmounts == {-2, 2}

RowShapes ==
    {[TCTYPE |-> k, CREATEDAT |-> t, CUSTOMERID |-> c, AMOUNT |-> a] :
        k \in Kinds, t \in 1..MaxTime, c \in 1..MaxCust, a \in RawAmounts \cup {-3}}

ValidShapes == {r \in RowShapes : r.AMOUNT \in AmountsOf(r.TCTYPE)}

RawShapes == {r \in RowShapes : r.AMOUNT \in RawAmounts}

\* A row of the sheet.  The columns the engine and the validators never read
\* are filled in as the fixtures of the tests fill them in: a lot expires
\* ExpiryDays after it was earned, a spend belongs to an order.
Txn(id, kind, at, cust, amount) ==
    [TRANS_ID |-> id, TCTYPE |-> kind, CREATEDAT |-> at,
     EXPIREDAT |-> IF kind = "earned" THEN at + ExpiryDays ELSE None,
     CUSTOMERID |-> cust,
     ORDERID |-> IF kind = "spent" THEN FirstOrderId ELSE None,
     AMOUNT |-> amount, REASON |-> None]

WithIds(shapes) ==
    [i \in 1..Len(shapes) |->
        Txn(FirstTransId + i - 1, shapes[i].TCTYPE, shapes[i].CREATEDAT,
            shapes[i].CUSTOMERID, shapes[i].AMOUNT)]

\* The engine compares customers for equality and time stamps for order, and
\* nothing else of them.  Of the batches that differ only in the names of the
\* customers or in the values of the time stamps one is generated: customers
\* are numbered as they first appear, time stamps leave no gap from 1.
Canonical(s) ==
    /\ \A i \in 1..Len(s) :
          \/ s[i].CUSTOMERID = 1
          \/ \E j \in 1..(i - 1) : s[j].CUSTOMERID = s[i].CUSTOMERID - 1
    /\ \A i \in 1..Len(s) :
          \/ s[i].CREATEDAT = 1
          \/ \E j \in 1..Len(s) : s[j].CREATEDAT = s[i].CREATEDAT - 1

\* Whether the order of equal keys matters to the sorts of lines 184 and 187:
\* two lots, or two redemptions, of one customer have the same CREATEDAT.
HasTie(batch) ==
    \E i, j \in 1..Len(batch) :
        /\ i < j
        /\ batch[i].CUSTOMERID = batch[j].CUSTOMERID
        /\ batch[i].CREATEDAT = batch[j].CREATEDAT
        /\ (batch[i].TCTYPE = "earned") = (batch[j].TCTYPE = "earned")

\* Whether batch is a batch of n generated rows drawn from shapes.
IsGenerated(batch, shapes, n) ==
    \E s \in [1..n -> shapes] : Canonical(s) /\ batch = WithIds(s)

\* sample_tc_data: earn 20, earn 30, spend 25 (days since 2023-01-01).
ScenarioA ==
    <<Txn(1001, "earned", 0, 100, 2000), Txn(1002, "earned", 14, 100, 3000),
      Txn(1003, "spent", 31, 100, -2500)>>

\* expired_transactions_data: earn 10, earn 20, 10 expires, spend 15.
ScenarioB ==
    <<Txn(1001, "earned", 0, 100, 1000), Txn(1002, "earned", 14, 100, 2000),
      Txn(1003, "expired", 31, 100, -1000), Txn(1004, "spent", 45, 100, -1500)>>

\* test_spent_before_earned: a spend dated before the only earn.
ScenarioC ==
    <<Txn(1001, "spent", 0, 100, -2000), Txn(1002, "earned", 31, 100, 3000)>>

\* Three lots of 1 that a spend of 3 takes one after the other.
ThreeSmallLots ==
    <<Txn(1001, "earned", 1, 100, 1), Txn(1002, "earned", 2, 100, 1),
      Txn(1003, "earned", 3, 100, 1), Txn(1004, "spent", 3, 100, -3),
      Txn(1005, "spent", 4, 100, -1)>>

\* sample_tc_data and a later spend of 10: the spend of 25 has taken both
\* lots, 25 more than it needed.
OverCoveredThenSpend ==
    <<Txn(1001, "earned", 0, 100, 2000), Txn(1002, "earned", 14, 100, 3000),
      Txn(1003, "spent", 31, 100, -2500), Txn(1004, "spent", 45, 100, -1000)>>

\* test_spent_before_earned with a lot the spend can take: earn 10, spend 25,
\* earn 30 after the spend.
ShortSpendThenEarn ==
    <<Txn(1001, "earned", 0, 100, 1000), Txn(1002, "spent", 14, 100, -2500),
      Txn(1003, "earned", 31, 100, 3000)>>

ScenarioBatches ==
    {ScenarioA, ScenarioB, ScenarioC, ThreeSmallLots, OverCoveredThenSpend,
     ShortSpendThenEarn}

TieOrders == {"input", "reversed"}

\* ------------------------------------------------------------------- Init
\* The locals of a call of perform_fifo_matching before its first statement.
FreshCall ==
    /\ pc = "start"
    /\ columns = InputColumns
    /\ result_df = <<>>
    /\ customers = <<>>
    /\ customer_id = None
    /\ earned_txns = <<>>
    /\ redemption_txns = <<>>
    /\ redemption = None
    /\ available_earned_indices = <<>>
    /\ scan_pos = 0
    /\ remaining_to_match = 0
    /\ indices_to_remove = <<>>
    /\ total_matches = 0
    /\ unmatched_redemptions = 0

\* No call is under way (the locals are as FreshCall leaves them).
NoCall ==
    /\ pc = "idle"
    /\ columns = InputColumns
    /\ result_df = <<>>
    /\ customers = <<>>
    /\ customer_id = None
    /\ earned_txns = <<>>
    /\ redemption_txns = <<>>
    /\ redemption = None
    /\ available_earned_indices = <<>>
    /\ scan_pos = 0
    /\ remaining_to_match = 0
    /\ indices_to_remove = <<>>
    /\ total_matches = 0
    /\ unmatched_redemptions = 0

NoReport == ValidationReport(0, "none", <<>>)

NoFrame == Frame({}, <<>>)

NoFile == Frame({}, <<>>)

NoOutcome == [kind |-> "none"]

\* The engine is called on its own: no validator, no gate, no DAG.
NoPipeline ==
    /\ now = 0
    /\ report = NoReport
    /\ matched_df = NoFrame
    /\ fail_on_error = TRUE
    /\ gate_result = NoOutcome
    /\ task = "none"
    /\ output_file = NoFile
    /\ try_number = 1
    /\ balance_records = <<>>

\* The batches a call is given: up to MaxRows rows signed as the source
\* validation demands, fewer rows nobody validated, and the fixtures of the
\* tests.
Init ==
    /\ \/ \E n \in 0..MaxRows : IsGenerated(df, ValidShapes, n)
       \/ \E n \in 1..(MaxRows - 1) : IsGenerated(df, RawShapes, n)
       \/ df \in ScenarioBatches
    /\ tie_order \in TieOrders
    /\ tie_order = "reversed" => HasTie(df)
    /\ run = 1
    /\ first_result = <<>>
    /\ focus = None
    /\ NoPipeline
    /\ FreshCall

\* ---------------------------------------------------------------- actions
\* Lines 147-159: copy the frame, add the REDEEMID column, list the customers.
Begin ==
    /\ pc = "start"
    /\ result_df' = [i \in 1..Len(df) |-> AddRedeemId(df[i])]
    /\ columns' = columns \cup {"REDEEMID"}
    /\ customers' = Unique([i \in 1..Len(df) |-> df[i].CUSTOMERID])
    /\ total_matches' = 0
    /\ unmatched_redemptions' = 0
    /\ pc' = "customers"
    /\ UNCHANGED <<customer_id, earned_txns, redemption_txns, redemption,
                   available_earned_indices, scan_pos, remaining_to_match,
                   indices_to_remove>>
    /\ UNCHANGED caller

\* Lines 167-201: the next customer; partition, sort, skip when a side is empty.
NextCustomer ==
    /\ pc = "customers"
    /\ customers # <<>>
    /\ LET c      == Head(customers)
           earned == SortValues(result_df, tie_order, EarnedLabels(result_df, c))
           redeem == SortValues(result_df, tie_order, RedemptionLabels(result_df, c))
       IN  /\ customer_id' = c
           /\ customers' = Tail(customers)
           /\ earned_txns' = earned
           /\ redemption_txns' = redeem
           /\ IF NothingToMatch(earned, redeem)
              THEN /\ pc' = "customers"
                   /\ UNCHANGED available_earned_indices
              ELSE /\ pc' = "redemptions"
                   /\ available_earned_indices' = earned
    /\ UNCHANGED <<columns, result_df, redemption, scan_pos, remaining_to_match,
                   indices_to_remove, total_matches, unmatched_redemptions>>
    /\ UNCHANGED caller

\* Lines 203-212: the next redemption of the customer, or back to the outer loop.
NextRedemption ==
    /\ pc = "redemptions"
    /\ IF redemption_txns = <<>>
       THEN /\ pc' = "customers"
            /\ UNCHANGED <<redemption, redemption_txns, remaining_to_match,
                           indices_to_remove, scan_pos>>
       ELSE /\ redemption' = Head(redemption_txns)
            /\ redemption_txns' = Tail(redemption_txns)
            /\ remaining_to_match' = Abs(result_df[Head(redemption_txns)].AMOUNT)
            /\ indices_to_remove' = <<>>
            /\ scan_pos' = 1
            /\ pc' = "scan"
    /\ UNCHANGED <<columns, result_df, customers, customer_id, earned_txns,
                   available_earned_indices, total_matches,
                   unmatched_redemptions>>
    /\ UNCHANGED caller

\* Lines 214-239: one iteration of the scan of the pool.
ScanLot ==
    /\ pc = "scan"
    /\ IF scan_pos > Len(available_earned_indices) \/ remaining_to_match <= 0
       THEN \* the pool is exhausted, or line 215 breaks
            /\ pc' = "remove"
            /\ UNCHANGED <<result_df, scan_pos, remaining_to_match,
                           indices_to_remove, total_matches>>
       ELSE LET earned_idx == available_earned_indices[scan_pos]
            IN  IF Ineligible(result_df[earned_idx].CREATEDAT,
                              result_df[redemption].CREATEDAT)
                THEN \* line 225: continue
                     /\ scan_pos' = scan_pos + 1
                     /\ UNCHANGED <<pc, result_df, remaining_to_match,
                                    indices_to_remove, total_matches>>
                ELSE /\ result_df' =
                          [result_df EXCEPT
                              ![earned_idx].REDEEMID = result_df[redemption].TRANS_ID]
                     /\ remaining_to_match' =
                          Consume(remaining_to_match, result_df[earned_idx].AMOUNT)
                     /\ indices_to_remove' = Append(indices_to_remove, earned_idx)
                     /\ total_matches' = total_matches + 1
                     /\ scan_pos' = scan_pos + 1
                     /\ UNCHANGED pc
    /\ UNCHANGED <<columns, customers, customer_id, earned_txns, redemption_txns,
                   redemption, available_earned_indices, unmatched_redemptions>>
    /\ UNCHANGED caller

\* Lines 242-252: drop the matched lots from the pool, count an unmatched rest.
EndRedemption ==
    /\ pc = "remove"
    /\ IF \/ RemoveRaises(available_earned_indices, indices_to_remove)
          \/ UnmatchedOutcome(remaining_to_match) = "raised"
       THEN /\ pc' = "raised"
            /\ UNCHANGED <<available_earned_indices, unmatched_redemptions>>
       ELSE /\ available_earned_indices' =
                  RemoveAll(available_earned_indices, indices_to_remove)
            /\ unmatched_redemptions' =
                  IF UnmatchedOutcome(remaining_to_match) = "counted"
                  THEN unmatched_redemptions + 1
                  ELSE unmatched_redemptions
            /\ pc' = "redemptions"
    /\ UNCHANGED <<columns, result_df, customers, customer_id, earned_txns,
                   redemption_txns, redemption, scan_pos, remaining_to_match,
                   indices_to_remove, total_matches>>
    /\ UNCHANGED caller

\* Lines 257-264: the loop over the customers is over; return result_df.
Return ==
    /\ pc = "customers"
    /\ customers = <<>>
    /\ pc' = "done"
    /\ UNCHANGED <<columns, result_df, customers, customer_id, earned_txns,
                   redemption_txns, redemption, available_earned_indices,
                   scan_pos, remaining_to_match, indices_to_remove,
                   total_matches, unmatched_redemptions>>
    /\ UNCHANGED caller

Next ==
    \/ Begin
    \/ NextCustomer
    \/ NextRedemption
    \/ ScanLot
    \/ EndRedemption
    \/ Return

Spec == Init /\ [][Next]_vars

\* The engine runs on: no step of a call is ever held back for ever.
FairSpec == Spec /\ WF_vars(Next)

\* ------------------------------------------------------- a second call
\* The rows of customer c, as a frame of their own (df[df.CUSTOMERID == c]
\* with a fresh index).
RECURSIVE RowsOf(_, _)
RowsOf(frame, c) ==
    IF frame = <<>> THEN <<>>
    ELSE (IF Head(frame).CUSTOMERID = c THEN <<Head(frame)>> ELSE <<>>)
         \o RowsOf(Tail(frame), c)

\* A new call starts with fresh locals.
NewCall ==
    /\ pc' = "start"
    /\ columns' = InputColumns
    /\ result_df' = <<>>
    /\ customers' = <<>>
    /\ customer_id' = None
    /\ earned_txns' = <<>>
    /\ redemption_txns' = <<>>
    /\ redemption' = None
    /\ available_earned_indices' = <<>>
    /\ scan_pos' = 0
    /\ remaining_to_match' = 0
    /\ indices_to_remove' = <<>>
    /\ total_matches' = 0
    /\ unmatched_redemptions' = 0

\* The task is run again on the same file (an Airflow retry, the next test).
RunAgain ==
    /\ pc = "done"
    /\ run = 1
    /\ run' = 2
    /\ first_result' = result_df
    /\ focus' = None
    /\ UNCHANGED <<df, tie_order, pipeline>>
    /\ NewCall

\* The engine is called on the rows of one customer alone.
RunOnCustomer ==
    /\ pc = "done"
    /\ run = 1
    /\ \E c \in {df[i].CUSTOMERID : i \in 1..Len(df)} :
          /\ \E i \in 1..Len(df) : df[i].CUSTOMERID # c
          /\ focus' = c
          /\ df' = RowsOf(df, c)
    /\ run' = 2
    /\ first_result' = result_df
    /\ UNCHANGED <<tie_order, pipeline>>
    /\ NewCall

PairNext ==
    \/ Next
    \/ RunAgain
    \/ RunOnCustomer

PairSpec == Init /\ [][PairNext]_vars

\* The engine is called on what it returned: perform_fifo_matching(result_df),
\* a frame that has the REDEEMID column already.
RunOnOutput ==
    /\ pc = "done"
    /\ run = 1
    /\ df' = result_df
    /\ run' = 2
    /\ first_result' = result_df
    /\ focus' = None
    /\ UNCHANGED <<tie_order, pipeline>>
    /\ pc' = "start"
    /\ columns' = columns
    /\ result_df' = <<>>
    /\ customers' = <<>>
    /\ customer_id' = None
    /\ earned_txns' = <<>>
    /\ redemption_txns' = <<>>
    /\ redemption' = None
    /\ available_earned_indices' = <<>>
    /\ scan_pos' = 0
    /\ remaining_to_match' = 0
    /\ indices_to_remove' = <<>>
    /\ total_matches' = 0
    /\ unmatched_redemptions' = 0

RerunNext ==
    \/ Next
    \/ RunOnOutput

RerunSpec == Init /\ [][RerunNext]_vars

\* ------------------------------------------------ inputs of the validators
\* A raw row is a well-formed row to which one of these happened; the tests
\* make the first two and "invalid_type", the rest are the other failures
\* validate_source_data looks for.
Defects ==
    {"none", "null_id", "duplicate_id", "null_type", "invalid_type",
     "null_date", "null_customer", "zero_customer", "negative_customer",
     "null_amount", "zero_amount", "flipped_amount"}

Defective(row, defect) ==
    CASE defect = "null_id"           -> [row EXCEPT !.TRANS_ID = NaN]
      [] defect = "duplicate_id"      -> [row EXCEPT !.TRANS_ID = FirstTransId]
      [] defect = "null_type"         -> [row EXCEPT !.TCTYPE = NullText]
      [] defect = "invalid_type"      -> [row EXCEPT !.TCTYPE = "invalid_type"]
      [] defect = "null_date"         -> [row EXCEPT !.CREATEDAT = NaN]
      [] defect = "null_customer"     -> [row EXCEPT !.CUSTOMERID = NaN]
      [] defect = "zero_customer"     -> [row EXCEPT !.CUSTOMERID = 0]
      [] defect = "negative_customer" -> [row EXCEPT !.CUSTOMERID = -1]
      [] defect = "null_amount"       -> [row EXCEPT !.AMOUNT = NaN]
      [] defect = "zero_amount"       -> [row EXCEPT !.AMOUNT = 0]
      [] defect = "flipped_amount"    -> [row EXCEPT !.AMOUNT = -row.AMOUNT]
      [] OTHER                        -> row

\* The validators compare a time stamp with the clock and with another time
\* stamp, and a customer with another customer: two of each are enough.
CheckedTimes == {MaxTime - 1, MaxTime}

CheckedCustomers == {1, MaxCust}

CheckedShapes ==
    {r \in ValidShapes :
        r.CREATEDAT \in CheckedTimes /\ r.CUSTOMERID \in CheckedCustomers}

\* A row of customer 1 and what happened to it; the rows dated after the
\* clock are well-formed (a batch may hold both kinds of rows).
CheckedRows ==
    {rd \in {r \in CheckedShapes : r.CUSTOMERID = 1} \X Defects :
        rd[2] = "none" \/ rd[1].CREATEDAT = MaxTime - 1}

\* Whether batch is n rows of one customer, each with one of the defects.
IsRawBatch(batch, n) ==
    \E s \in [1..n -> CheckedRows] :
        batch = [i \in 1..n |->
                    Defective(WithIds([k \in 1..n |-> s[k][1]])[i], s[i][2])]

\* A reference nobody's TRANS_ID equals.
UnknownId == 9999

WithRedeemId(row, ref) ==
    [TRANS_ID |-> row.TRANS_ID, TCTYPE |-> row.TCTYPE,
     CREATEDAT |-> row.CREATEDAT, EXPIREDAT |-> row.EXPIREDAT,
     CUSTOMERID |-> row.CUSTOMERID, ORDERID |-> row.ORDERID,
     AMOUNT |-> row.AMOUNT, REASON |-> row.REASON, REDEEMID |-> ref]

\* Whether frame is n well-formed rows annotated in any way at all: each row
\* holds no reference, the TRANS_ID of a row of the frame, or UnknownId.  The
\* first row is of customer 1 (the validator compares customers for equality
\* only).
IsAnnotated(frame, n) ==
    \E s \in [1..n -> CheckedShapes] :
        \E ref \in [1..n -> {None, UnknownId}
                               \cup {FirstTransId + i - 1 : i \in 1..n}] :
            /\ n > 0 => s[1].CUSTOMERID = 1
            /\ frame = Frame(InputColumns \cup {"REDEEMID"},
                          [i \in 1..n |-> WithRedeemId(WithIds(s)[i], ref[i])])

\* Whether frame is n well-formed rows without the REDEEMID column.
IsUnannotated(frame, n) ==
    \E s \in [1..n -> CheckedShapes] : frame = Frame(InputColumns, WithIds(s))

Severities == {"ERROR", "WARNING", "INFO"}

Stages == {"source", "post_fifo"}

\* Whether r is a report of n results of any severity and outcome.
IsAnyReport(r, n) ==
    \E stage \in Stages :
        \E res \in [1..n -> [passed : BOOLEAN, severity : Severities]] :
            r = ValidationReport(0, stage,
                    [k \in 1..n |->
                        ValidationResult(<<"check">>, res[k].passed,
                                         res[k].severity)])

\* ------------------------------------------------- the validators, called
\* The inputs of one call of a validator or of the gate: a raw batch, an
\* annotated frame, or a report.
ValidationInit ==
    /\ \/ /\ \E n \in 0..MaxChecked : IsRawBatch(df, n)
          /\ matched_df = NoFrame
          /\ report = NoReport
       \/ /\ df = <<>>
          /\ \/ \E n \in 0..MaxChecked : IsAnnotated(matched_df, n)
             \/ \E n \in 0..MaxChecked : IsUnannotated(matched_df, n)
          /\ report = NoReport
       \/ /\ df = <<>>
          /\ matched_df = NoFrame
          /\ \E n \in 0..MaxResults : IsAnyReport(report, n)
    /\ now = MaxTime - 1
    /\ fail_on_error = TRUE
    /\ gate_result = NoOutcome
    /\ task = "none"
    /\ output_file = NoFile
    /\ try_number = 1
    /\ balance_records = <<>>
    /\ tie_order = "input"
    /\ run = 1
    /\ first_result = <<>>
    /\ focus = None
    /\ NoCall

\* report = validate_source_data(df)
ValidateSource ==
    /\ report = NoReport
    /\ matched_df = NoFrame
    /\ report' = ValidateSourceData(df, now)
    /\ UNCHANGED <<df, tie_order, run, first_result, focus, now, matched_df,
                   fail_on_error, gate_result, task, output_file, try_number,
                   balance_records>>
    /\ UNCHANGED engine

\* report = validate_fifo_results(original_df, matched_df)
ValidateResults ==
    /\ report = NoReport
    /\ matched_df # NoFrame
    /\ report' = ValidateFifoResults(now, df, matched_df)
    /\ UNCHANGED <<df, tie_order, run, first_result, focus, now, matched_df,
                   fail_on_error, gate_result, task, output_file, try_number,
                   balance_records>>
    /\ UNCHANGED engine

\* validation_gate(report, fail_on_error)
Gate ==
    /\ report # NoReport
    /\ gate_result = NoOutcome
    /\ \E fail \in BOOLEAN :
          /\ fail_on_error' = fail
          /\ gate_result' = ValidationGate(report, fail)
    /\ UNCHANGED <<df, tie_order, run, first_result, focus, now, report,
                   matched_df, task, output_file, try_number, balance_records>>
    /\ UNCHANGED engine

ValidationNext ==
    \/ ValidateSource
    \/ ValidateResults
    \/ Gate

ValidationSpec == ValidationInit /\ [][ValidationNext]_vars

\* ------------------------------------------------------------- the DAG
\* src/dags/thrive_cash_processing_dag.py from validate_source to
\* validate_results (line 713-714); each task loads the downloaded file anew.
DagInit ==
    /\ \/ \E n \in 0..MaxRows : IsGenerated(df, ValidShapes, n)
       \/ \E n \in 1..(MaxRows - 1) : IsGenerated(df, RawShapes, n)
       \/ df \in ScenarioBatches
    /\ tie_order \in TieOrders
    /\ tie_order = "reversed" => HasTie(df)
    /\ now = MaxTime - 1
    /\ report = NoReport
    /\ matched_df = NoFrame
    /\ fail_on_error = TRUE
    /\ gate_result = NoOutcome
    /\ task = "validate_source"
    /\ output_file = NoFile
    /\ try_number = 1
    /\ balance_records = <<>>
    /\ run = 1
    /\ first_result = <<>>
    /\ focus = None
    /\ NoCall

\* The tasks of lines 713-714 in their order, and what stands for the end of
\* a run that a task failed (its downstream tasks are never run: the default
\* trigger rule waits for the success of the task upstream).
NextTask(t) ==
    CASE t = "validate_source"       -> "perform_fifo_matching"
      [] t = "perform_fifo_matching" -> "validate_results"
      [] t = "validate_results"      -> "build_analytics"
      [] t = "build_analytics"       -> "send_alerts"

\* Mutant: the tasks are wired with trigger_rule=ALL_DONE, the task downstream
\* runs once the task upstream has given up.
OnOutcomeAllDone(t, n, raised) ==
    IF raised /\ n <= Retries
    THEN [task |-> t, try_number |-> n + 1]
    ELSE [task |-> NextTask(t), try_number |-> 1]

\* What runs after attempt n of task t.  DEFAULT_ARGS (line 85) gives every
\* task retries=3: a task that raised, whatever it raised, is run again
\* until it has been tried Retries + 1 times, and fails then.
OnOutcome(t, n, raised) ==
    IF raised
    THEN IF n <= Retries
         THEN [task |-> t, try_number |-> n + 1]
         ELSE [task |-> "failed", try_number |-> n]
    ELSE [task |-> NextTask(t), try_number |-> 1]

\* Task validate_source, lines 237-251: validate, then the gate with
\* fail_on_error=True; the exception fails the attempt.
ValidateSourceTask ==
    /\ task = "validate_source"
    /\ LET rep  == ValidateSourceData(df, now)
           out  == ValidationGate(rep, TRUE)
           then == OnOutcome(task, try_number, out.kind = "raised")
       IN  /\ report' = rep
           /\ gate_result' = out
           /\ task' = then.task
           /\ try_number' = then.try_number
           /\ pc' = IF then.task = "perform_fifo_matching" THEN "start" ELSE pc
    /\ fail_on_error' = TRUE
    /\ UNCHANGED <<df, tie_order, run, first_result, focus, now, matched_df,
                   output_file, balance_records>>
    /\ UNCHANGED <<columns, result_df, customers, customer_id, earned_txns,
                   redemption_txns, redemption, available_earned_indices,
                   scan_pos, remaining_to_match, indices_to_remove,
                   total_matches, unmatched_redemptions>>

\* Task perform_fifo_matching, lines 307-310, in run_fifo_matching_pipeline
\* (fifo_matching.py lines 329-342): once the engine has returned, the result
\* is saved to output_path and the task ends.
SaveResults ==
    /\ task = "perform_fifo_matching"
    /\ pc = "done"
    /\ output_file' = ToCsv(columns, result_df)
    /\ task' = OnOutcome(task, try_number, FALSE).task
    /\ try_number' = OnOutcome(task, try_number, FALSE).try_number
    /\ UNCHANGED <<df, tie_order, run, first_result, focus, now, report,
                   matched_df, fail_on_error, gate_result, balance_records>>
    /\ UNCHANGED engine

\* Task validate_results, lines 376-393: read the saved file back, validate,
\* then the gate with fail_on_error=True.
ValidateResultsTask ==
    /\ task = "validate_results"
    /\ LET matched == ReadCsv(output_file)
           rep     == ValidateFifoResults(now, df, matched)
           out     == ValidationGate(rep, TRUE)
           then    == OnOutcome(task, try_number, out.kind = "raised")
       IN  /\ matched_df' = matched
           /\ report' = rep
           /\ gate_result' = out
           /\ task' = then.task
           /\ try_number' = then.try_number
    /\ fail_on_error' = TRUE
    /\ UNCHANGED <<df, tie_order, run, first_result, focus, now, output_file,
                   balance_records>>
    /\ UNCHANGED engine

\* Lines 455-476: what the first k rows of one customer, in labels order, add
\* up to in one kind (abs() of a spent and of an expired amount).
RECURSIVE Cumulative(_, _, _, _)
Cumulative(rows, labels, k, kind) ==
    IF k = 0 THEN 0
    ELSE Cumulative(rows, labels, k - 1, kind)
         + (IF rows[labels[k]].TCTYPE = kind
            THEN Abs(rows[labels[k]].AMOUNT) ELSE 0)

\* Lines 448-476: the balance records of customer c, by CREATEDAT.
CustomerBalances(rows, tie, c) ==
    LET labels == SortValues(rows, tie,
                             {i \in 1..Len(rows) : rows[i].CUSTOMERID = c})
    IN  [k \in 1..Len(labels) |->
            [customer_id |-> c,
             transaction_id |-> rows[labels[k]].TRANS_ID,
             cumulative_earned |-> Cumulative(rows, labels, k, "earned"),
             cumulative_spent |-> Cumulative(rows, labels, k, "spent"),
             cumulative_expired |-> Cumulative(rows, labels, k, "expired"),
             current_balance |->
                 Cumulative(rows, labels, k, "earned")
                 - Cumulative(rows, labels, k, "spent")
                 - Cumulative(rows, labels, k, "expired")]]

\* Lines 445-476: the records of every customer, customers as they first appear.
RECURSIVE BalanceRecords(_, _, _)
BalanceRecords(rows, tie, custs) ==
    IF custs = <<>> THEN <<>>
    ELSE CustomerBalances(rows, tie, Head(custs))
         \o BalanceRecords(rows, tie, Tail(custs))

\* Task build_analytics, lines 395-492: read the saved file, write the running
\* balances of the customers.
BuildAnalytics ==
    /\ task = "build_analytics"
    /\ LET rows == ReadCsv(output_file).rows
       IN  balance_records' =
               BalanceRecords(rows, tie_order,
                              Unique([i \in 1..Len(rows) |-> rows[i].CUSTOMERID]))
    /\ task' = OnOutcome(task, try_number, FALSE).task
    /\ try_number' = OnOutcome(task, try_number, FALSE).try_number
    /\ UNCHANGED <<df, tie_order, run, first_result, focus, now, report,
                   matched_df, fail_on_error, gate_result, output_file>>
    /\ UNCHANGED engine

DagNext ==
    \/ ValidateSourceTask
    \/ Next
    \/ SaveResults
    \/ ValidateResultsTask
    \/ BuildAnalytics

DagSpec == DagInit /\ [][DagNext]_vars


\* ================================================================ claims
Rows == 1..Len(result_df)

IsEarned(i) == result_df[i].TCTYPE = "earned"

IsRedemption(i) == result_df[i].TCTYPE \in {"spent", "expired"}

SameCustomer(i, j) == result_df[i].CUSTOMERID = result_df[j].CUSTOMERID

\* A redemption is being matched: the scan runs, or has just ended.
Matching == pc \in {"scan", "remove"}

\* The lots of the current customer no redemption had consumed when the k-th
\* match of the current redemption was made.
UnconsumedAtMatch(k) ==
    {j \in Rows :
        /\ IsEarned(j)
        /\ result_df[j].CUSTOMERID = customer_id
        /\ \/ result_df[j].REDEEMID = None
           \/ \E m \in k..Len(indices_to_remove) : indices_to_remove[m] = j}

\* C1. FIFO ordering: for a customer without Expired rows, the first lot a
\* redemption matches is the chronologically earliest lot of the customer that
\* was unconsumed when the redemption was processed, and no match passes over
\* an earlier unconsumed lot in favour of a later one.
C1_FifoOrdering ==
    (/\ Matching
     /\ \A i \in Rows :
           result_df[i].CUSTOMERID = customer_id => result_df[i].TCTYPE # "expired")
    => \A k \in 1..Len(indices_to_remove) :
          \A j \in UnconsumedAtMatch(k) :
             result_df[indices_to_remove[k]].CREATEDAT <= result_df[j].CREATEDAT

\* A spend has matched the older of two lots although the younger one comes
\* first in the batch; the younger one is still unconsumed.
C1_Witness ==
    /\ pc = "remove"
    /\ Len(indices_to_remove) = 1
    /\ \A i \in Rows : result_df[i].TCTYPE # "expired"
    /\ \E j \in UnconsumedAtMatch(1) :
          /\ result_df[j].REDEEMID = None
          /\ result_df[indices_to_remove[1]].CREATEDAT < result_df[j].CREATEDAT
          /\ j < indices_to_remove[1]

\* C2. Temporal guard: no Earned row references a redemption created strictly
\* before it; a lot created at the very instant of the redemption is eligible
\* (it is not left in the pool while something remains to match); and a lot
\* created after the only redemption of its customer keeps a null reference.
C2_TemporalGuard ==
    /\ \A e \in Rows : \A r \in Rows :
          (/\ IsEarned(e)
           /\ result_df[e].REDEEMID # None
           /\ IsRedemption(r)
           /\ result_df[r].TRANS_ID = result_df[e].REDEEMID)
          => result_df[r].CREATEDAT >= result_df[e].CREATEDAT
    /\ (pc = "remove" /\ remaining_to_match > 0)
          => \A j \in Range(available_earned_indices) :
                result_df[j].CREATEDAT = result_df[redemption].CREATEDAT
                => j \in Range(indices_to_remove)
    /\ pc = "done"
          => \A e \in Rows : \A r \in Rows :
                (/\ IsEarned(e)
                 /\ IsRedemption(r)
                 /\ SameCustomer(e, r)
                 /\ \A q \in Rows : (IsRedemption(q) /\ SameCustomer(q, r)) => q = r
                 /\ result_df[e].CREATEDAT > result_df[r].CREATEDAT)
                => result_df[e].REDEEMID = None

\* The engine has returned a batch in which one lot references a redemption
\* created at the same instant and another lot, created after the customer's
\* only redemption, has no reference.
C2_Witness ==
    /\ pc = "done"
    /\ \E e \in Rows : \E r \in Rows :
          /\ IsEarned(e) /\ IsRedemption(r)
          /\ result_df[e].REDEEMID = result_df[r].TRANS_ID
          /\ result_df[e].CREATEDAT = result_df[r].CREATEDAT
          /\ \E l \in Rows :
                /\ IsEarned(l) /\ SameCustomer(l, r)
                /\ result_df[l].CREATEDAT > result_df[r].CREATEDAT
                /\ result_df[l].REDEEMID = None

\* C3. Exclusivity: in every state of the allocation and in every output, a
\* non-null REDEEMID sits on an Earned row only.
C3_Exclusivity ==
    \A i \in Rows : result_df[i].REDEEMID # None => IsEarned(i)

\* A lot has been matched in a batch that also holds a Spent and an Expired row.
C3_Witness ==
    /\ \E i \in Rows : result_df[i].REDEEMID # None
    /\ \E i \in Rows : result_df[i].TCTYPE = "spent" /\ result_df[i].REDEEMID = None
    /\ \E i \in Rows : result_df[i].TCTYPE = "expired" /\ result_df[i].REDEEMID = None

\* C4. Referential validity: in every output, a non-null REDEEMID is the
\* TRANS_ID of a Spent or Expired row of the same customer, and of no row of
\* another customer.
C4_ReferentialValidity ==
    pc = "done" =>
        \A e \in Rows :
            result_df[e].REDEEMID # None =>
                /\ \E r \in Rows :
                      /\ IsRedemption(r)
                      /\ result_df[r].TRANS_ID = result_df[e].REDEEMID
                      /\ SameCustomer(r, e)
                /\ \A r \in Rows :
                      result_df[r].TRANS_ID = result_df[e].REDEEMID
                      => SameCustomer(r, e)

\* The engine has returned a batch of two customers in which a lot is matched
\* although the other customer has an older redemption.
C4_Witness ==
    /\ pc = "done"
    /\ \E e \in Rows : \E r \in Rows : \E o \in Rows :
          /\ result_df[e].REDEEMID = result_df[r].TRANS_ID
          /\ IsRedemption(o) /\ ~SameCustomer(o, e)
          /\ result_df[o].CREATEDAT >= result_df[e].CREATEDAT
          /\ o < r

\* C5. Customer isolation: the references of customer c's rows do not depend on
\* the rows of the other customers.  Two batches that hold the same rows of c
\* in the same order share the batch of c's rows alone, so it is enough that
\* every batch gives c's rows the references the batch of c's rows alone gives
\* them: here the second call ran on the first call's batch cut down to focus.
C5_CustomerIsolation ==
    (run = 2 /\ focus # None /\ pc = "done")
    => RowsOf(first_result, focus) = result_df

\* Both calls have returned; the first call's batch opened with a lot of
\* another customer, older than the lot of the focus customer that is matched.
C5_Witness ==
    /\ run = 2 /\ focus # None /\ pc = "done"
    /\ first_result[1].CUSTOMERID # focus
    /\ first_result[1].TCTYPE = "earned"
    /\ first_result[1].REDEEMID = None
    /\ \E i \in Rows :
          /\ result_df[i].REDEEMID # None
          /\ first_result[1].CREATEDAT < result_df[i].CREATEDAT

EligiblePool ==
    SelectSeq(available_earned_indices,
              LAMBDA j : result_df[j].CREATEDAT <= result_df[redemption].CREATEDAT)

\* The amounts of the lots matched to the current redemption, in match order.
MatchedAmounts ==
    [k \in 1..Len(indices_to_remove) |-> result_df[indices_to_remove[k]].AMOUNT]

\* C7. Lots are never split: the lots matched to a redemption are the first
\* eligible lots of the pool, in pool order; each is taken whole and carries
\* the redemption's id; all but the last sum to strictly less than
\* abs(amount); the scan ends only when remaining <= 0 or no eligible lot is
\* left.  Earn 20, earn 30, spend 25 gives both lots the spend's id.
C7_LotsNeverSplit ==
    /\ Matching =>
          LET need == Abs(result_df[redemption].AMOUNT)
              k    == Len(indices_to_remove)
          IN  /\ k <= Len(EligiblePool)
              /\ indices_to_remove = SubSeq(EligiblePool, 1, k)
              /\ remaining_to_match = need - SumSeq(MatchedAmounts)
              /\ \A m \in 1..k :
                    result_df[indices_to_remove[m]].REDEEMID =
                        result_df[redemption].TRANS_ID
              /\ k >= 1 => SumSeq(SubSeq(MatchedAmounts, 1, k - 1)) < need
              /\ pc = "remove" => (remaining_to_match <= 0 \/ k = Len(EligiblePool))
    /\ (df = ScenarioA /\ pc = "done")
          => /\ result_df[1].REDEEMID = 1003
             /\ result_df[2].REDEEMID = 1003
             /\ result_df[3].REDEEMID = None

\* Scenario A: the spend of 25 has taken the lots of 20 and of 30 whole and
\* overshot by 25.
C7_Witness ==
    /\ df = ScenarioA
    /\ pc = "remove"
    /\ indices_to_remove = <<1, 2>>
    /\ remaining_to_match = -2500

RECURSIVE SumAmounts(_)
SumAmounts(S) ==
    IF S = {} THEN 0
    ELSE LET i == CHOOSE x \in S : TRUE
         IN  result_df[i].AMOUNT + SumAmounts(S \ {i})

\* abs(amount) of redemption r minus the summed amounts of the lots matched to it.
Leftover(r) ==
    Abs(result_df[r].AMOUNT)
    - SumAmounts({e \in Rows : IsEarned(e) /\ SameCustomer(e, r)
                                /\ result_df[e].REDEEMID = result_df[r].TRANS_ID})

\* The redemptions the engine scans: those of a customer that has a lot.
Scanned ==
    {r \in Rows : IsRedemption(r) /\ \E e \in Rows : IsEarned(e) /\ SameCustomer(e, r)}

\* C8. Scenario B: earn 10 (1001), earn 20 (1002), 10 expires (1003), spend 15
\* (1004) gives 1001 the reference 1003 and 1002 the reference 1004.  In
\* general Expired rows redeem as Spent rows do: the redemptions of a customer
\* are processed in CREATEDAT order whatever their kind, an Expired row takes
\* the first eligible lots of the pool, and one left short leaves no lot behind
\* that was created by the time of the expiry.
C8_ExpiredConsumesFifo ==
    /\ (df = ScenarioB /\ pc = "done")
          => /\ result_df[1].REDEEMID = 1003
             /\ result_df[2].REDEEMID = 1004
             /\ result_df[3].REDEEMID = None
             /\ result_df[4].REDEEMID = None
    /\ Matching =>
          /\ \A r \in Range(redemption_txns) :
                result_df[r].CREATEDAT >= result_df[redemption].CREATEDAT
          /\ \A r \in RedemptionLabels(result_df, customer_id) :
                result_df[r].CREATEDAT > result_df[redemption].CREATEDAT
                => r \in Range(redemption_txns)
          /\ result_df[redemption].TCTYPE = "expired"
                => /\ Len(indices_to_remove) <= Len(EligiblePool)
                   /\ indices_to_remove =
                         SubSeq(EligiblePool, 1, Len(indices_to_remove))
    /\ pc = "done" =>
          \A r \in Rows : \A e \in Rows :
              (/\ result_df[r].TCTYPE = "expired"
               /\ IsEarned(e) /\ SameCustomer(e, r)
               /\ result_df[e].CREATEDAT <= result_df[r].CREATEDAT
               /\ Leftover(r) > 0)
              => result_df[e].REDEEMID # None

\* Scenario B has been allocated: the expiry took lot 1001, the spend lot 1002.
C8_Witness ==
    /\ df = ScenarioB
    /\ pc = "done"
    /\ result_df[1].REDEEMID = 1003
    /\ result_df[2].REDEEMID = 1004

\* C9. Unmatched statistic: what is left of a redemption after its scan is
\* abs(amount) minus the amounts of its lots; the redemption is counted, once,
\* exactly when that is above the tolerance of 0.01, not when it lies in
\* (0, 0.01]; and the engine does not fail on it.
C9_UnmatchedStatistic ==
    /\ pc = "remove" => remaining_to_match = Leftover(redemption)
    /\ pc = "done" =>
          unmatched_redemptions =
              Cardinality({r \in Scanned : Leftover(r) > Tolerance})
    /\ pc # "raised"

\* The engine has returned with one redemption counted although two were left
\* short: one by more than the tolerance, one by exactly the tolerance.
C9_Witness ==
    /\ pc = "done"
    /\ unmatched_redemptions = 1
    /\ \E r \in Scanned : Leftover(r) = Tolerance
    /\ \E r \in Scanned : Leftover(r) > Tolerance

\* C10. The engine never raises for business outcomes: on every batch that has
\* the required columns the call raises nothing and comes to return a batch of
\* as many rows that carries the REDEEMID column.
C10_NeverRaises ==
    /\ [](pc # "raised")
    /\ <>(/\ pc = "done"
          /\ "REDEEMID" \in columns
          /\ Len(result_df) = Len(df))

\* The engine has returned although a redemption exceeded all available credit
\* and a lot stayed unconsumed.
C10_Witness ==
    /\ pc = "done"
    /\ "REDEEMID" \in columns
    /\ unmatched_redemptions > 0
    /\ \E e \in Rows : IsEarned(e) /\ result_df[e].REDEEMID = None
    /\ \E r \in Scanned : Leftover(r) = Abs(result_df[r].AMOUNT)

\* ---------------------------------------------------------------------------
\* C11. Frame of the allocation: from the copy of line 147 on, result_df has
\* exactly the rows of the input, in the input's order, and every column other
\* than REDEEMID (TRANS_ID, TCTYPE, CREATEDAT, EXPIREDAT, CUSTOMERID, ORDERID,
\* AMOUNT, REASON) holds its input value in every row; REDEEMID is the only
\* column added, and the input frame itself is never written.
C11_Frame ==
    /\ pc # "start" =>
          /\ Len(result_df) = Len(df)
          /\ columns = InputColumns \cup {"REDEEMID"}
          /\ \A i \in 1..Len(df) :
                /\ DOMAIN result_df[i] = columns
                /\ \A f \in InputColumns : result_df[i][f] = df[i][f]
    /\ \A i \in 1..Len(df) : DOMAIN df[i] = InputColumns

\* The engine has returned a batch in which it wrote a reference; the batch
\* has a spend with an order and a negative amount.
C11_Witness ==
    /\ pc = "done"
    /\ \E i \in 1..Len(result_df) : result_df[i].REDEEMID # None
    /\ \E i \in 1..Len(result_df) :
          /\ result_df[i].ORDERID # None
          /\ result_df[i].AMOUNT < 0

\* ---------------------------------------------------------------------------
\* What the claims about the validators speak of.
\* The report was made by validate_source_data (a report made up to try the
\* gate holds no timestamp).
SourceValidated ==
    report.stage = "source" /\ report.timestamp # None

\* The report was made by validate_fifo_results.
ResultsValidated ==
    report.stage = "post_fifo" /\ report.timestamp # None

\* The results of the report with the given severity that failed, counted
\* one by one from the front.
RECURSIVE CountFailed(_, _)
CountFailed(results, severity) ==
    IF results = <<>> THEN 0
    ELSE (IF ~Head(results).passed /\ Head(results).severity = severity
          THEN 1 ELSE 0) + CountFailed(Tail(results), severity)

\* ---------------------------------------------------------------------------
\* C12. Verdict of a report: for every list of results, passed is true iff no
\* result of severity ERROR has failed; failed WARNING or INFO results never
\* make it false; error_count is the number of failed ERROR results and
\* warning_count the number of failed WARNING results.
C12_ReportVerdict ==
    /\ ReportPassed(report) <=>
          ~\E k \in 1..Len(report.results) :
              report.results[k].severity = "ERROR" /\ ~report.results[k].passed
    /\ ErrorCount(report) = CountFailed(report.results, "ERROR")
    /\ WarningCount(report) = CountFailed(report.results, "WARNING")
    /\ ReportPassed(report) <=> (ErrorCount(report) = 0)

\* A report whose WARNING and INFO results failed and whose ERROR result
\* passed: it passes, with one warning counted and no error.
C12_Witness ==
    /\ Len(report.results) = 3
    /\ \E k \in 1..3 :
          report.results[k].severity = "ERROR" /\ report.results[k].passed
    /\ \E k \in 1..3 :
          report.results[k].severity = "WARNING" /\ ~report.results[k].passed
    /\ \E k \in 1..3 :
          report.results[k].severity = "INFO" /\ ~report.results[k].passed
    /\ ReportPassed(report)
    /\ WarningCount(report) = 1
    /\ gate_result = Returned(TRUE)

\* ---------------------------------------------------------------------------
\* C13. Contract of the gate: validation_gate(report, fail_on_error) raises,
\* with the report's stage and error_count in the exception, exactly when
\* fail_on_error is true and the report has not passed; in every other case it
\* raises nothing and returns report.passed.
C13_GateContract ==
    gate_result # NoOutcome =>
        /\ gate_result.kind \in {"raised", "returned"}
        /\ gate_result.kind = "raised" <=>
              (fail_on_error /\ ~ReportPassed(report))
        /\ gate_result.kind = "raised" =>
              /\ gate_result.stage = report.stage
              /\ gate_result.error_count =
                    CountFailed(report.results, "ERROR")
              /\ gate_result.error_count > 0
        /\ gate_result.kind = "returned" =>
              gate_result.value = ReportPassed(report)

\* The gate has returned False for a failed report with fail_on_error false.
C13_Witness ==
    /\ gate_result = Returned(FALSE)
    /\ ~fail_on_error
    /\ ErrorCount(report) = 2

SourceChecks ==
    <<"No Null Values", "Valid Transaction Types", "Amount Sign Consistency",
      "No Duplicate Transaction IDs", "No Future Dates", "Valid Customer IDs",
      "Data Completeness Summary">>

\* How many results of the report a check has contributed.
ResultsOf(check) ==
    Cardinality({k \in 1..Len(report.results) :
                    report.results[k].check_name[1] = check})

\* C15, as claimed: each of the seven checks of validate_source_data
\* contributes exactly one result, so that the report has seven results in
\* the order of the checks for every batch.
C15_OneResultPerCheck ==
    SourceValidated =>
        /\ \A c \in 1..Len(SourceChecks) : ResultsOf(SourceChecks[c]) = 1
        /\ Len(report.results) = Len(SourceChecks)
        /\ \A k \in 1..Len(report.results) :
              k <= Len(SourceChecks) =>
                  report.results[k].check_name[1] = SourceChecks[k]

\* C15, amended: the completeness check contributes one result for each of the
\* five required fields (TRANS_ID, TCTYPE, CREATEDAT, CUSTOMERID, AMOUNT, in
\* this order) and each of the other six checks exactly one, however many rows
\* or fields offend; the report of every batch has these eleven results in
\* this order, with these severities.
C15_ResultsFixed ==
    SourceValidated =>
        /\ Len(report.results) = 11
        /\ \A k \in 1..5 :
              /\ report.results[k].check_name =
                    <<"No Null Values", required_fields[k]>>
              /\ report.results[k].severity = "ERROR"
        /\ \A c \in 2..7 :
              /\ report.results[c + 4].check_name = <<SourceChecks[c]>>
              /\ ResultsOf(SourceChecks[c]) = 1
        /\ ResultsOf(SourceChecks[1]) = 5
        /\ \A c \in {2, 3, 4, 6} : report.results[c + 4].severity = "ERROR"
        /\ report.results[9].severity = "WARNING"
        /\ report.results[11].severity = "INFO"

\* A batch in which two rows are null in the same field has been validated:
\* one result reports both.
C15_Witness ==
    /\ SourceValidated
    /\ Len(df) = 2
    /\ \A i \in 1..2 : df[i].CREATEDAT = NaN
    /\ ~report.results[3].passed
    /\ ErrorCount(report) = 1

\* ---------------------------------------------------------------------------
\* C16. Scenario D: for a batch with a row that is null in a required field f
\* (a null TRANS_ID in particular), validate_source_data returns a report that
\* has not passed and holds a failed ERROR result whose check_name names f.
C16_NullIsReported ==
    SourceValidated =>
        \A f \in {"TRANS_ID", "TCTYPE", "CREATEDAT", "CUSTOMERID", "AMOUNT"} :
            (\E i \in 1..Len(df) :
                df[i][f] = (IF f = "TCTYPE" THEN NullText ELSE NaN))
            => /\ ~ReportPassed(report)
               /\ \E k \in 1..Len(report.results) :
                     /\ report.results[k].check_name = <<"No Null Values", f>>
                     /\ ~report.results[k].passed
                     /\ report.results[k].severity = "ERROR"

\* The batch of test_source_validation_catches_null_trans_id (an earned row,
\* then a spent row without TRANS_ID) has been validated and the gate called.
C16_Witness ==
    /\ SourceValidated
    /\ Len(df) = 2
    /\ df[1].TCTYPE = "earned" /\ df[1].TRANS_ID = FirstTransId
    /\ df[2].TCTYPE = "spent" /\ df[2].TRANS_ID = NaN
    /\ ~report.results[1].passed
    /\ gate_result.kind = "raised"

\* ---------------------------------------------------------------------------
\* C17. Scenario E: for a frame without the REDEEMID column
\* validate_fifo_results returns a report of exactly one result, the failed
\* ERROR result of the schema check, and the report has not passed; with the
\* column the schema result passes and the other five checks add one result
\* each.
C17_SchemaFirst ==
    ResultsValidated =>
        IF "REDEEMID" \notin matched_df.columns
        THEN /\ Len(report.results) = 1
             /\ report.results[1] =
                   ValidationResult(<<"REDEEMID Column Exists">>, FALSE, "ERROR")
             /\ ~ReportPassed(report)
             /\ ErrorCount(report) = 1
        ELSE /\ Len(report.results) = 6
             /\ report.results[1] =
                   ValidationResult(<<"REDEEMID Column Exists">>, TRUE, "ERROR")
             /\ \A k, l \in 1..6 :
                   k # l => report.results[k].check_name
                               # report.results[l].check_name

\* A frame without the column, in which a customer has spent more than was
\* earned, has been validated: the balance check did not report.
C17_Witness ==
    /\ ResultsValidated
    /\ "REDEEMID" \notin matched_df.columns
    /\ Len(matched_df.rows) = 2
    /\ \A i \in 1..2 : matched_df.rows[i].TCTYPE = "spent"
    /\ Len(report.results) = 1

\* ---------------------------------------------------------------------------
\* C18. Severity asymmetry: the future-dates result of the source validation
\* and the balance result of the result validation (a customer whose earned
\* minus spent minus expired is below -0.01) are WARNING, so a report in which
\* nothing else failed has passed with error_count 0 and the gate returns True
\* without raising; a failed sign or uniqueness result is ERROR and makes the
\* report fail.
C18_SeverityAsymmetry ==
    /\ SourceValidated =>
          /\ report.results[9].check_name = <<"No Future Dates">>
          /\ report.results[9].passed <=>
                ~\E i \in 1..Len(df) :
                    df[i].CREATEDAT # NaN /\ df[i].CREATEDAT > now
          /\ (\A k \in 1..Len(report.results) :
                  k # 9 => report.results[k].passed)
             => /\ ReportPassed(report)
                /\ ErrorCount(report) = 0
                /\ gate_result # NoOutcome => gate_result = Returned(TRUE)
          /\ \A k \in {7, 8} :
                ~report.results[k].passed =>
                    /\ report.results[k].severity = "ERROR"
                    /\ ~ReportPassed(report)
                    /\ gate_result # NoOutcome =>
                          gate_result.kind = "raised" \/ ~fail_on_error
    /\ (ResultsValidated /\ "REDEEMID" \in matched_df.columns) =>
          /\ report.results[5].check_name = <<"Customer Balance Reconciliation">>
          /\ report.results[5].passed <=>
                ~\E c \in {matched_df.rows[i].CUSTOMERID :
                              i \in 1..Len(matched_df.rows)} :
                    Remaining(matched_df.rows, c) < -Tolerance
          /\ (\A k \in 1..Len(report.results) :
                  k # 5 => report.results[k].passed)
             => /\ ReportPassed(report)
                /\ ErrorCount(report) = 0
                /\ gate_result # NoOutcome => gate_result = Returned(TRUE)

\* Only the balance check failed, for a customer 0.02 short: the report has
\* passed with one warning and the gate, called with fail_on_error, returned
\* True.
C18_Witness ==
    /\ ResultsValidated
    /\ Len(report.results) = 6
    /\ ~report.results[5].passed
    /\ WarningCount(report) = 1
    /\ ErrorCount(report) = 0
    /\ fail_on_error
    /\ gate_result = Returned(TRUE)

\* ---------------------------------------------------------------------------
\* C19. The output of the engine passes the result validation: for every batch
\* that has passed validate_source_data, validate_fifo_results of what the
\* engine returned (as it is, and as read back from the saved file) reports
\* the schema, reference, exclusivity and chronology checks as passed, the
\* report has passed, and the gate after the allocation raises nothing.
C19_EngineOutputPasses ==
    /\ (task = "perform_fifo_matching" /\ pc = "done") =>
          LET rep == ValidateFifoResults(now, df, Frame(columns, result_df))
          IN  /\ ReportPassed(rep)
              /\ \A k \in 1..4 : rep.results[k].passed
    /\ ResultsValidated =>
          /\ Len(report.results) = 6
          /\ \A k \in 1..4 : report.results[k].passed
          /\ ReportPassed(report)
          /\ gate_result = Returned(TRUE)
          /\ task \in {"build_analytics", "send_alerts"}
    /\ task = "failed" => report.stage = "source"

\* A run has passed both gates; a lot was matched at the instant it was
\* earned, and the balance check warned.
C19_Witness ==
    /\ task \in {"build_analytics", "send_alerts"}
    /\ ResultsValidated
    /\ ~report.results[5].passed
    /\ \E i, j \in 1..Len(result_df) :
          /\ result_df[i].REDEEMID = result_df[j].TRANS_ID
          /\ result_df[i].CREATEDAT = result_df[j].CREATEDAT

\* ---------------------------------------------------------------------------
\* C20, as claimed: the annotated batch is written to the output file only
\* after the gate of the result validation has passed; while that gate has
\* not passed, and in a run in which it fails, no output has been written.
C20_NoPartialCommit ==
    output_file # NoFile =>
        /\ ResultsValidated
        /\ gate_result = Returned(TRUE)

\* ---------------------------------------------------------------------------
\* C21. Gate ordering: in every run of the DAG the engine starts, and runs,
\* only after the source validation of the batch has passed and its gate has
\* returned True; validate_fifo_results has run only on the saved result of
\* an engine that has returned; the analytics have run only after the gate of
\* the result validation returned True; and while a gate has raised, no stage
\* after it has run (the engine has not started and nothing was saved after
\* the source gate, no analytics after either gate).
C21_GateOrdering ==
    /\ pc # "idle" => task \notin {"validate_source", "failed"}
    /\ pc = "start" => report = ValidateSourceData(df, now)
    /\ task = "perform_fifo_matching" =>
          /\ SourceValidated
          /\ ReportPassed(report)
          /\ gate_result = Returned(TRUE)
    /\ (matched_df # NoFrame \/ report.stage = "post_fifo") =>
          /\ pc = "done"
          /\ output_file = ToCsv(columns, result_df)
          /\ matched_df = ReadCsv(output_file)
    /\ (task = "send_alerts" \/ balance_records # <<>>) =>
          /\ ResultsValidated
          /\ gate_result = Returned(TRUE)
    /\ gate_result.kind = "raised" =>
          /\ balance_records = <<>>
          /\ task \in {"validate_source", "validate_results", "failed"}
          /\ report.stage = "source" =>
                /\ pc = "idle"
                /\ output_file = NoFile
                /\ matched_df = NoFrame

\* A run has gone through every stage: the analytics hold a record for each
\* of the three rows of a batch in which a lot was matched.
C21_Witness ==
    /\ task = "send_alerts"
    /\ Len(balance_records) = 3
    /\ \E i \in 1..Len(result_df) : result_df[i].REDEEMID # None
    /\ \E k \in 1..3 : balance_records[k].current_balance < 0

\* ---------------------------------------------------------------------------
\* C22, as claimed: the error of a gate is terminal.  Once a gate has raised,
\* no step of the run executes the source validation or the result validation
\* again.
C22_ValidationErrorTerminal ==
    [][gate_result.kind = "raised"
          => ~(ValidateSourceTask \/ ValidateResultsTask)]_vars

\* ---------------------------------------------------------------------------
\* C23. Each lot is consumed at most once: a reference written on an Earned
\* row is never overwritten or cleared in the rest of the call; every match
\* is made on a row that had no reference (total_matches counts the rows that
\* hold one); a lot that holds a reference is out of the pool once its
\* redemption has been processed, also when it over-covered the redemption,
\* and the pool holds no lot twice.
C23_ConsumedOnce ==
    /\ [](/\ total_matches =
                Cardinality({i \in Rows : result_df[i].REDEEMID # None})
          /\ pc \in {"redemptions", "scan", "remove"} =>
                /\ \A k, l \in 1..Len(available_earned_indices) :
                      k # l => available_earned_indices[k]
                                  # available_earned_indices[l]
                /\ \A j \in Range(available_earned_indices) :
                      result_df[j].REDEEMID # None
                      => (Matching /\ j \in Range(indices_to_remove)))
    /\ [][\A i \in Rows :
             result_df[i].REDEEMID # None
             => result_df'[i].REDEEMID = result_df[i].REDEEMID]_vars

\* Two lots were taken by a spend they over-covered by 25.00; the later spend
\* of 10.00 found the pool empty and is counted as unmatched, and both lots
\* still reference the first spend.
C23_Witness ==
    /\ df = OverCoveredThenSpend
    /\ pc = "done"
    /\ result_df[1].REDEEMID = 1003
    /\ result_df[2].REDEEMID = 1003
    /\ Leftover(3) = -2500
    /\ unmatched_redemptions = 1

\* The customer has no Earned row or no Spent/Expired row.
IsSkipped(c) ==
    EarnedLabels(result_df, c) = {} \/ RedemptionLabels(result_df, c) = {}

\* ---------------------------------------------------------------------------
\* C24. Skipped customers: a customer without Earned rows or without
\* Spent/Expired rows is skipped entirely.  The step that takes it off the
\* list of customers writes no reference and leaves both statistics as they
\* are, and goes on with the next customer; the matching loop only ever runs
\* for a customer that has rows of both sides.  In the output none of its rows
\* holds a reference, and total_matches and unmatched_redemptions count the
\* lots and the redemptions of the other customers only: the redemptions of a
\* customer without lots are not counted as unmatched.
C24_SkippedCustomers ==
    /\ [](/\ pc \in {"redemptions", "scan", "remove"} => ~IsSkipped(customer_id)
          /\ pc = "done" =>
                /\ \A i \in Rows :
                      IsSkipped(result_df[i].CUSTOMERID)
                      => result_df[i].REDEEMID = None
                /\ total_matches =
                      Cardinality({i \in Rows :
                                      /\ ~IsSkipped(result_df[i].CUSTOMERID)
                                      /\ result_df[i].REDEEMID # None})
                /\ unmatched_redemptions =
                      Cardinality({r \in Rows :
                                      /\ IsRedemption(r)
                                      /\ ~IsSkipped(result_df[r].CUSTOMERID)
                                      /\ Leftover(r) > Tolerance}))
    /\ [][(/\ pc = "customers"
           /\ customers # <<>>
           /\ IsSkipped(Head(customers)))
          => /\ pc' = "customers"
             /\ customers' = Tail(customers)
             /\ UNCHANGED <<result_df, total_matches, unmatched_redemptions,
                            available_earned_indices>>]_vars

\* The engine has returned a batch in which the first customer has a spend and
\* no lot, and the second customer a lot and an expiry that took it: one match
\* and no unmatched redemption are counted.
C24_Witness ==
    /\ pc = "done"
    /\ Len(result_df) = 3
    /\ result_df[1].TCTYPE = "spent"
    /\ IsSkipped(result_df[1].CUSTOMERID)
    /\ Leftover(1) > Tolerance
    /\ ~IsSkipped(result_df[2].CUSTOMERID)
    /\ total_matches = 1
    /\ unmatched_redemptions = 0

\* Position of label j in the sequence of labels.
PositionIn(labels, j) == CHOOSE k \in 1..Len(labels) : labels[k] = j

\* Lots i and j are of one customer and were created at the same instant.
Tied(i, j) ==
    /\ IsEarned(i) /\ IsEarned(j)
    /\ SameCustomer(i, j)
    /\ result_df[i].CREATEDAT = result_df[j].CREATEDAT

RECURSIVE CursorTake(_, _, _, _, _)
CursorTake(frame, lots, cursor, r, remaining) ==
    IF \/ cursor > Len(lots)
       \/ remaining <= 0
       \/ frame[lots[cursor]].CREATEDAT > frame[r].CREATEDAT
    THEN [cursor |-> cursor, remaining |-> remaining]
    ELSE CursorTake(frame, lots, cursor + 1, r,
                    remaining - frame[lots[cursor]].AMOUNT)

\* The redemptions of one customer, one after the other, against the cursor.
RECURSIVE CursorCustomer(_, _, _, _, _)
CursorCustomer(frame, lots, redeems, cursor, acc) ==
    IF redeems = <<>> THEN acc
    ELSE LET r    == Head(redeems)
             took == CursorTake(frame, lots, cursor, r, Abs(frame[r].AMOUNT))
         IN  CursorCustomer(frame, lots, Tail(redeems), took.cursor,
                 [refs |->
                      [i \in DOMAIN acc.refs |->
                          IF \E k \in cursor..(took.cursor - 1) : lots[k] = i
                          THEN frame[r].TRANS_ID ELSE acc.refs[i]],
                  total_matches |-> acc.total_matches + (took.cursor - cursor),
                  unmatched_redemptions |->
                      acc.unmatched_redemptions
                      + (IF took.remaining > Tolerance THEN 1 ELSE 0)])

\* Every customer in turn; a customer without lots or without redemptions is
\* skipped.
RECURSIVE CursorAllocate(_, _, _, _)
CursorAllocate(frame, tie, custs, acc) ==
    IF custs = <<>> THEN acc
    ELSE LET lots    == SortValues(frame, tie, EarnedLabels(frame, Head(custs)))
             redeems == SortValues(frame, tie,
                                   RedemptionLabels(frame, Head(custs)))
         IN  CursorAllocate(frame, tie, Tail(custs),
                 IF lots = <<>> \/ redeems = <<>> THEN acc
                 ELSE CursorCustomer(frame, lots, redeems, 1, acc))

\* What the cursor makes of the batch of the call.
CursorResult ==
    CursorAllocate(df, tie_order,
                   Unique([i \in 1..Len(df) |-> df[i].CUSTOMERID]),
                   [refs |-> [i \in 1..Len(df) |-> None],
                    total_matches |-> 0, unmatched_redemptions |-> 0])

\* How many of the sorted lots of the current customer hold a reference.
ConsumedCount ==
    Cardinality({k \in 1..Len(earned_txns) :
                    result_df[earned_txns[k]].REDEEMID # None})

\* C26. Cursor equivalence: while a customer is matched the pool is ascending
\* in CREATEDAT, so in a scan every lot after an ineligible lot is ineligible
\* too; the lots of the customer that hold a reference are at every moment
\* the first ones of its sorted lots, and between two redemptions the pool is
\* the rest of them.  Hence the engine returns the references, total_matches
\* and unmatched_redemptions that one forward-only cursor over the sorted lots
\* gives, which stops at the first ineligible lot.
C26_CursorEquivalence ==
    /\ pc \in {"redemptions", "scan", "remove"} =>
          /\ \A k, l \in 1..Len(available_earned_indices) :
                k < l => result_df[available_earned_indices[k]].CREATEDAT
                            <= result_df[available_earned_indices[l]].CREATEDAT
          /\ \A k \in 1..Len(earned_txns) :
                result_df[earned_txns[k]].REDEEMID # None <=> k <= ConsumedCount
          /\ pc = "redemptions" =>
                available_earned_indices =
                    SubSeq(earned_txns, ConsumedCount + 1, Len(earned_txns))
    /\ Matching =>
          \A k, l \in 1..Len(available_earned_indices) :
              (/\ k < l
               /\ Ineligible(result_df[available_earned_indices[k]].CREATEDAT,
                             result_df[redemption].CREATEDAT))
              => Ineligible(result_df[available_earned_indices[l]].CREATEDAT,
                            result_df[redemption].CREATEDAT)
    /\ pc = "done" =>
          /\ \A i \in Rows : result_df[i].REDEEMID = CursorResult.refs[i]
          /\ total_matches = CursorResult.total_matches
          /\ unmatched_redemptions = CursorResult.unmatched_redemptions

\* The scan of a spend has taken the first lot of the pool, has met a lot
\* created after the spend with something left to match, and has gone on to
\* the end of the pool.
C26_Witness ==
    /\ pc = "remove"
    /\ Len(available_earned_indices) = 2
    /\ indices_to_remove = <<available_earned_indices[1]>>
    /\ remaining_to_match > 0
    /\ scan_pos = 3
    /\ Ineligible(result_df[available_earned_indices[2]].CREATEDAT,
                  result_df[redemption].CREATEDAT)

\* ---------------------------------------------------------------------------
\* The pairs (e, r) of rows of the validated frame in which Earned row e holds
\* a reference, r is the row the reference names, and r was created strictly
\* before e.
LaterThanReferenced ==
    {p \in (1..Len(matched_df.rows)) \X (1..Len(matched_df.rows)) :
        /\ matched_df.rows[p[1]].TCTYPE = "earned"
        /\ matched_df.rows[p[1]].REDEEMID \notin {None, NaN}
        /\ matched_df.rows[p[2]].TRANS_ID = matched_df.rows[p[1]].REDEEMID
        /\ matched_df.rows[p[2]].CREATEDAT < matched_df.rows[p[1]].CREATEDAT}

\* C27. Chronological check of validate_fifo_results: the fourth result, of
\* severity ERROR, has failed exactly when some Earned row with a reference
\* was created strictly after the row its reference names (the referenced
\* redemption); a reference to a row of the same instant passes, as does a
\* reference no row has as TRANS_ID; the errors listed are the (earned id,
\* redemption id) pairs of all these rows; and a failed check fails the report.
C27_ChronologicalCheck ==
    (ResultsValidated /\ "REDEEMID" \in matched_df.columns) =>
        /\ report.results[4].check_name = <<"Chronological Consistency">>
        /\ report.results[4].severity = "ERROR"
        /\ report.results[4].passed <=> LaterThanReferenced = {}
        /\ ChronologicalPairs(matched_df.rows) =
              {<<matched_df.rows[p[1]].TRANS_ID, matched_df.rows[p[2]].TRANS_ID>> :
                  p \in LaterThanReferenced}
        /\ ~report.results[4].passed => ~ReportPassed(report)

\* A frame in which a lot references a spend of the day before has been
\* validated: the chronology check alone has failed.
C27_Witness ==
    /\ ResultsValidated
    /\ Len(matched_df.rows) = 2
    /\ matched_df.rows[1].TCTYPE = "earned"
    /\ matched_df.rows[2].TCTYPE = "spent"
    /\ matched_df.rows[1].REDEEMID = matched_df.rows[2].TRANS_ID
    /\ matched_df.rows[2].CREATEDAT < matched_df.rows[1].CREATEDAT
    /\ ~report.results[4].passed
    /\ ErrorCount(report) = 1

\* ---------------------------------------------------------------------------
\* C28. Exhaustion before unmatched: in the step that counts a redemption as
\* unmatched, no lot of its customer created at or before the redemption is
\* left without a reference; hence in every output an Earned row without a
\* reference was created strictly after every redemption of its customer that
\* was left more than the tolerance short.
C28_ExhaustionBeforeUnmatched ==
    /\ [](pc = "done" =>
             \A e \in Rows : \A r \in Scanned :
                 (/\ IsEarned(e)
                  /\ SameCustomer(e, r)
                  /\ result_df[e].REDEEMID = None
                  /\ Leftover(r) > Tolerance)
                 => result_df[e].CREATEDAT > result_df[r].CREATEDAT)
    /\ [][unmatched_redemptions' > unmatched_redemptions
          => /\ unmatched_redemptions' = unmatched_redemptions + 1
             /\ remaining_to_match > Tolerance
             /\ \A j \in Rows :
                   (/\ IsEarned(j)
                    /\ result_df[j].CUSTOMERID = customer_id
                    /\ result_df'[j].REDEEMID = None)
                   => result_df[j].CREATEDAT > result_df[redemption].CREATEDAT
             /\ \A j \in Range(available_earned_indices') :
                   result_df[j].CREATEDAT > result_df[redemption].CREATEDAT]_vars

\* The spend of 25.00 took the lot of 10.00 and is counted as unmatched; the
\* lot earned after the spend holds no reference.
C28_Witness ==
    /\ df = ShortSpendThenEarn
    /\ pc = "done"
    /\ unmatched_redemptions = 1
    /\ result_df[1].REDEEMID = 1002
    /\ Leftover(2) = 1500
    /\ result_df[3].REDEEMID = None

\* ---------------------------------------------------------------------------
\* C29. The engine on its own output: called on the annotated batch it
\* returned, the engine returns that very batch again.  The references of the
\* input are discarded (every reference the second call's frame holds was
\* written by a match of the second call) and computed anew; the frame keeps
\* its columns.
C29_IdempotentOnOutput ==
    run = 2 =>
        /\ df = first_result
        /\ pc # "start" =>
              /\ Len(result_df) = Len(first_result)
              /\ columns = InputColumns \cup {"REDEEMID"}
              /\ total_matches =
                    Cardinality({i \in Rows : result_df[i].REDEEMID # None})
        /\ pc = "done" => result_df = first_result

\* The second call has returned; its input held a lot with a reference and a
\* lot of the same customer without one.
C29_Witness ==
    /\ run = 2
    /\ pc = "done"
    /\ \E i, j \in 1..Len(df) :
          /\ df[i].REDEEMID # None
          /\ df[j].TCTYPE = "earned"
          /\ df[j].CUSTOMERID = df[i].CUSTOMERID
          /\ df[j].REDEEMID = None

\* ---------------------------------------------------------------------------
\* Row i of the validated frame holds a reference.
HoldsReference(i) == matched_df.rows[i].REDEEMID \notin {None, NaN}

\* Row r of the validated frame is the Spent or Expired row, of whatever
\* customer, that the reference of row i names.
NamedRedemption(i, r) ==
    /\ matched_df.rows[r].TCTYPE \in {"spent", "expired"}
    /\ matched_df.rows[r].TRANS_ID = matched_df.rows[i].REDEEMID

\* C30. Reference check of validate_fifo_results: the second result, of
\* severity ERROR, has passed exactly when every reference in the frame is the
\* TRANS_ID of some Spent or Expired row of the frame, of any customer.  The
\* customer of the referenced row is looked at by no check: a frame in which
\* every reference sits on an Earned row and names a Spent or Expired row of
\* any customer, created no earlier than the Earned row, has passed.
C30_ReferenceCheckBatchWide ==
    (ResultsValidated /\ "REDEEMID" \in matched_df.columns) =>
        /\ report.results[2].check_name =
              <<"REDEEMID References Valid Transactions">>
        /\ report.results[2].severity = "ERROR"
        /\ report.results[2].passed <=>
              \A i \in 1..Len(matched_df.rows) :
                  HoldsReference(i)
                  => \E r \in 1..Len(matched_df.rows) : NamedRedemption(i, r)
        /\ (\A i \in 1..Len(matched_df.rows) :
               HoldsReference(i)
               => /\ matched_df.rows[i].TCTYPE = "earned"
                  /\ \E r \in 1..Len(matched_df.rows) :
                        /\ NamedRedemption(i, r)
                        /\ matched_df.rows[r].CREATEDAT
                              >= matched_df.rows[i].CREATEDAT)
           => /\ ReportPassed(report)
              /\ ErrorCount(report) = 0

\* A frame in which a lot of one customer references the spend of another
\* customer has been validated: the reference check and the report have
\* passed.
C30_Witness ==
    /\ ResultsValidated
    /\ Len(matched_df.rows) = 2
    /\ HoldsReference(1)
    /\ NamedRedemption(1, 2)
    /\ matched_df.rows[1].TCTYPE = "earned"
    /\ matched_df.rows[1].CUSTOMERID # matched_df.rows[2].CUSTOMERID
    /\ report.results[2].passed
    /\ ReportPassed(report)

=============================================================================
